---- MODULE Spec2Model ----
(***************************************************************************)
(* A model of scripts/build-iso.py: the live-ISO profile assembly pipeline *)
(* (main) and the profile editors it sequences.                            *)
(*                                                                         *)
(* Text files are sequences of tokens.  The token "[core]" is the anchor   *)
(* of configure_pacman; no other token holds "[" or "]", so an occurrence  *)
(* of the anchor in the text is exactly an occurrence of the token (the    *)
(* anchor has no proper border, so str.replace never sees overlapping      *)
(* matches).  "LF" and "CR" are the line-feed and carriage-return bytes.   *)
(* A key line is a sequence over " ", "#" and "k" (any other character).   *)
(***************************************************************************)
EXTENDS Integers, Sequences, FiniteSets, TLC

VARIABLES
    pc,                  \* position of main
    status,              \* "Running", "Done" or "Failed"
    exit_code,           \* process exit status, -1 while running
    steps,               \* the stage operations started so far, in order
    failed_at,           \* the stage that raised, "" if none
    args,                \* parsed command line
    cleanup_work,        \* main's cleanup_work
    work_dir,            \* "unallocated", "present" or "removed"
    work_items,          \* what the work directory holds
    pinned_repo_dir,     \* "None" or the staged repository path
    releng,              \* the base template tree (with the airootfs overlay)
    iso_boot,            \* files under repo_root/iso/{efiboot,syslinux,grub}
    keys_src,            \* the credentials source file
    services_to_disable, \* the list looped over by disable_conflicting_services
    services,            \* the list looped over by enable_services
    umask,               \* the process umask
    pacman_conf,         \* bytes of profile/pacman.conf
    boot,                \* profile boot-loader trees: path -> node
    wants,               \* profile activation directories
    preset,              \* node at airootfs/etc/mkinitcpio.d/linux.preset
    ssh_dir,             \* airootfs/root/.ssh
    auth_keys,           \* airootfs/root/.ssh/authorized_keys
    keys,                \* inject_ssh_keys' local list
    output_dir,          \* the *.iso files in the output directory
    tool_made,           \* the *.iso files mkarchiso wrote in this run
    iso_path,            \* build_iso's return value
    pinning_outcome,     \* how the zfspin calls ended, "none" if not made
    releng_found,        \* releng_path.exists(), "unchecked" before the test
    tool_rc,             \* how mkarchiso ended, "none" if not run
    reported             \* "none", "success" or "error"

vars == <<pc, status, exit_code, steps, failed_at, args, cleanup_work, work_dir,
          work_items, pinned_repo_dir, releng, iso_boot, keys_src,
          services_to_disable, services, umask, pacman_conf, boot, wants,
          preset, ssh_dir, auth_keys, keys, output_dir, tool_made, iso_path,
          pinning_outcome, releng_found, tool_rc, reported>>

\* ---------------------------------------------------------------- bounds
MaxTextLen == 4
MaxLineLen == 2
MaxLines == 2

\* ------------------------------------------------------- sequence helpers
SeqsUpTo(S, n) == UNION {[1..k -> S] : k \in 0..n}

Range(s) == {s[i] : i \in 1..Len(s)}

\* ---------------------------------------------------------- text file I/O
\* open(path).read(): text mode with universal newlines, CR LF and a lone CR
\* are both read as LF.
RECURSIVE ReadText(_)
ReadText(bytes) ==
    IF bytes = <<>> THEN <<>>
    ELSE IF Head(bytes) = "CR"
         THEN IF Len(bytes) >= 2 /\ bytes[2] = "LF"
              THEN <<"LF">> \o ReadText(Tail(Tail(bytes)))
              ELSE <<"LF">> \o ReadText(Tail(bytes))
         ELSE <<Head(bytes)>> \o ReadText(Tail(bytes))

\* open(path, "w").write(text): LF is written as os.linesep, which is LF on
\* the Linux host the script requires.
WriteText(text) == text

\* ------------------------------------------------------- configure_pacman
Anchor == "[core]"

archzfs_repo ==
    <<"LF", "[archzfs]", "LF", "SigLevel = Optional TrustAll", "LF",
      "Server = https://archzfs.com/$repo/$arch", "LF",
      "Server = https://mirror.sum7.eu/archlinux/archzfs/$repo/$arch", "LF">>

PinnedRepoPath == "work_dir/pinned-repo"

pinned_repo(dir) ==
    IF dir # "None"
    THEN <<"LF", "[pinned]", "LF", "SigLevel = Optional TrustAll", "LF",
           "Server = file://work_dir/pinned-repo", "LF">>
    ELSE <<>>

\* str.replace(old, new): every occurrence, left to right.
RECURSIVE ReplaceAll(_, _, _)
ReplaceAll(content, old, new) ==
    IF content = <<>> THEN <<>>
    ELSE IF Head(content) = old
         THEN new \o ReplaceAll(Tail(content), old, new)
         ELSE <<Head(content)>> \o ReplaceAll(Tail(content), old, new)

\* A variant that edits the text even when the anchor is missing.
InsertedTextUnguarded(content, dir) ==
    IF Anchor \in Range(content)
    THEN ReplaceAll(content, Anchor, pinned_repo(dir) \o archzfs_repo \o <<Anchor>>)
    ELSE pinned_repo(dir) \o archzfs_repo \o content

\* Lines 237-239: the edit of the text read from the file.
InsertedText(content, dir) ==
    IF Anchor \in Range(content)
    THEN ReplaceAll(content, Anchor, pinned_repo(dir) \o archzfs_repo \o <<Anchor>>)
    ELSE content

\* The bytes of pacman.conf after configure_pacman(profile_dir, dir).
configure_pacman(bytes, dir) == WriteText(InsertedText(ReadText(bytes), dir))

\* --------------------------------------------------------- inject_ssh_keys
RECURSIVE LStrip(_)
LStrip(line) ==
    IF line # <<>> /\ Head(line) = " " THEN LStrip(Tail(line)) ELSE line

RECURSIVE RStrip(_)
RStrip(line) ==
    IF line # <<>> /\ line[Len(line)] = " "
    THEN RStrip(SubSeq(line, 1, Len(line) - 1))
    ELSE line

\* str.strip()
Strip(line) == RStrip(LStrip(line))

\* str.startswith("#")
StartsWithHash(line) == line # <<>> /\ Head(line) = "#"

\* The filter of the list comprehension at line 188.
IsKeyLine(line) == Strip(line) # <<>> /\ ~StartsWithHash(line)

RECURSIVE ReadKeys(_)
ReadKeys(lines) ==
    IF lines = <<>> THEN <<>>
    ELSE (IF IsKeyLine(Head(lines)) THEN <<Strip(Head(lines))>> ELSE <<>>)
         \o ReadKeys(Tail(lines))

\* "\n".join(keys) + "\n", for a non-empty list
RECURSIVE JoinLF(_)
JoinLF(ks) ==
    IF ks = <<>> THEN <<>>
    ELSE IF Len(ks) = 1 THEN Head(ks)
    ELSE Head(ks) \o <<"LF">> \o JoinLF(Tail(ks))

KeysFileText(ks) == JoinLF(ks) \o <<"LF">>

\* Permission bits
OwnerBits == {"ur", "uw", "ux"}
OtherBits == {"gr", "gw", "gx", "or", "ow", "ox"}
FileCreateMode == {"ur", "uw", "gr", "gw", "or", "ow"} \* open(): 0666 & ~umask
DirCreateMode == OwnerBits \cup OtherBits              \* mkdir(): 0777 & ~umask
Mode600 == {"ur", "uw"}
Mode700 == {"ur", "uw", "ux"}
Umasks == {{"gw", "ow"}, OtherBits}                    \* 022 and 077

AbsentFile == [exists |-> FALSE, content |-> <<>>, mode |-> {}]
AbsentDir == [exists |-> FALSE, mode |-> {}]

\* ------------------------------------------------ boot-loader trees (fs)
\* A node is [kind, data]: an absent path, a regular file (data names where its
\* content came from) or a symbolic link (data is the path it points at).
E1 == "efiboot/loader/entries/01-archiso-linux.conf"
E2 == "efiboot/loader/entries/02-archiso-speech-linux.conf"
LTS == "efiboot/loader/entries/01-archiso-linux-lts.conf"
SYS == "syslinux/syslinux.cfg"
GRUB == "grub/grub.cfg"
EfiPaths == {E1, E2, LTS}
BootPaths == {E1, E2, LTS, SYS, GRUB}

Absent == [kind |-> "absent", data |-> ""]
File(from) == [kind |-> "file", data |-> from]
Link(to) == [kind |-> "symlink", data |-> to]

\* Path.exists(): follows a symbolic link, False for a dangling one.
PathExists(fs, p) ==
    IF fs[p].kind = "symlink" THEN fs[fs[p].data].kind = "file"
    ELSE fs[p].kind = "file"

Unlink(fs, p) == [fs EXCEPT ![p] = Absent]

\* shutil.copy(item, dst_path): opens dst_path for writing, which follows a
\* symbolic link at dst_path and creates or overwrites the file it points at.
ShutilCopy(fs, item, dst_path) ==
    IF fs[dst_path].kind = "symlink"
    THEN [fs EXCEPT ![fs[dst_path].data] = File(item)]
    ELSE [fs EXCEPT ![dst_path] = File(item)]

releng_boot_entries == <<E1, E2>>

\* Lines 149-155: unlink each stock entry that exists.
RECURSIVE RemoveBootEntries(_, _)
RemoveBootEntries(fs, entries) ==
    IF entries = <<>> THEN fs
    ELSE RemoveBootEntries(
            IF PathExists(fs, Head(entries)) THEN Unlink(fs, Head(entries)) ELSE fs,
            Tail(entries))

\* Lines 158-168: copy every overlay file, in the order rglob yields them.
RECURSIVE CopyBootConfigs(_, _)
CopyBootConfigs(fs, items) ==
    IF items = <<>> THEN fs
    ELSE CopyBootConfigs(ShutilCopy(fs, Head(items), Head(items)), Tail(items))

Perms(S) == {s \in [1..Cardinality(S) -> S] : \A i, j \in 1..Len(s) : s[i] = s[j] => i = j}

\* The orders in which the three rglob calls can yield the overlay's files:
\* efiboot first, then syslinux, then grub; any order inside efiboot.
RglobOrders(overlay) ==
    {o \o (IF SYS \in overlay THEN <<SYS>> ELSE <<>>)
       \o (IF GRUB \in overlay THEN <<GRUB>> ELSE <<>>) :
     o \in Perms(overlay \cap EfiPaths)}

ReconcileBootEntries(fs, order) ==
    CopyBootConfigs(RemoveBootEntries(fs, releng_boot_entries), order)

\* ------------------------------------------------------ cleanup_releng_files
\* The node at airootfs/etc/mkinitcpio.d/linux.preset: "absent", "file",
\* "symlink" (to an existing file) or "dangling".
PresetExists(p) == p \in {"file", "symlink"}

cleanup_releng_files(p) == IF PresetExists(p) THEN "absent" ELSE p

\* ------------------------------------------------ service activation links
MultiUser == "multi-user.target.wants"
NetworkOnline == "network-online.target.wants"
Sockets == "sockets.target.wants"
WantsDirs == {MultiUser, NetworkOnline, Sockets}
other_target_wants == <<NetworkOnline, Sockets>>

SERVICES_TO_DISABLE ==
    <<"systemd-networkd.service", "systemd-networkd.socket",
      "systemd-networkd-wait-online.service", "systemd-resolved.service",
      "iwd.service", "cloud-init-local.service", "cloud-init-main.service",
      "cloud-init-network.service", "cloud-config.service",
      "cloud-final.service", "livecd-talk.service",
      "livecd-alsa-unmuter.service", "choose-mirror.service">>

SERVICES == <<"sshd.service", "NetworkManager.service">>

AllServices == Range(SERVICES_TO_DISABLE) \cup Range(SERVICES)

\* A link is "absent", "unit" (a symbolic link to the canonical unit file
\* /usr/lib/systemd/system/<service>), "symlink" (any other symbolic link,
\* dangling or not) or "file" (a regular file at the link's path).
LinkPresent(links, service) == links[service] # "absent"

\* link.unlink() for each listed service whose link exists or is a symlink.
RECURSIVE UnlinkServices(_, _)
UnlinkServices(links, list) ==
    IF list = <<>> THEN links
    ELSE UnlinkServices(
            IF LinkPresent(links, Head(list))
            THEN [links EXCEPT ![Head(list)] = "absent"] ELSE links,
            Tail(list))

RECURSIVE DisableInOthers(_, _, _)
DisableInOthers(w, dirs, list) ==
    IF dirs = <<>> THEN w
    ELSE DisableInOthers(
            IF w[Head(dirs)].exists
            THEN [w EXCEPT ![Head(dirs)].links = UnlinkServices(@, list)] ELSE w,
            Tail(dirs), list)

disable_conflicting_services(w, list) ==
    DisableInOthers([w EXCEPT ![MultiUser].links = UnlinkServices(@, list)],
                    other_target_wants, list)

\* link.symlink_to(target) unless a link is already there.
RECURSIVE SymlinkServices(_, _)
SymlinkServices(links, list) ==
    IF list = <<>> THEN links
    ELSE SymlinkServices(
            IF LinkPresent(links, Head(list)) THEN links
            ELSE [links EXCEPT ![Head(list)] = "unit"],
            Tail(list))

enable_services(w, list) ==
    [w EXCEPT ![MultiUser] = [exists |-> TRUE, links |-> SymlinkServices(@.links, list)]]

\* ------------------------------------------------------------------ main
\* The calls of main's try block, in program order (lines 384-408).
MainOrder ==
    <<"setup_pinned_kernel_repo", "setup_archiso_profile", "configure_pacman",
      "inject_ssh_keys", "disable_conflicting_services", "cleanup_releng_files",
      "enable_services", "build_iso", "report">>

RECURSIVE IndexOf(_, _)
IndexOf(s, x) == IF Head(s) = x THEN 1 ELSE 1 + IndexOf(Tail(s), x)

\* Variants of main with two adjacent calls exchanged.
TrustFirstOrder ==
    <<"setup_pinned_kernel_repo", "setup_archiso_profile", "inject_ssh_keys",
      "configure_pacman", "disable_conflicting_services", "cleanup_releng_files",
      "enable_services", "build_iso", "report">>

StageAfterTrustFirst(stage) == TrustFirstOrder[IndexOf(TrustFirstOrder, stage) + 1]

EnableFirstOrder ==
    <<"setup_pinned_kernel_repo", "setup_archiso_profile", "configure_pacman",
      "inject_ssh_keys", "enable_services", "cleanup_releng_files",
      "disable_conflicting_services", "build_iso", "report">>

StageAfterEnableFirst(stage) == EnableFirstOrder[IndexOf(EnableFirstOrder, stage) + 1]

\* The call that follows `stage` in main.
StageAfter(stage) == MainOrder[IndexOf(MainOrder, stage) + 1]

\* A variant whose general handler logs the failure and returns.
OnlyImportErrorExits(outcome) == outcome = "ImportError"

\* What setup_pinned_kernel_repo does with the outcome of the zfspin calls:
\* "ok", "ImportError" (zfspin missing) or "Exception" (detection, download,
\* build or indexing raised).  Both handlers end in sys.exit(1).
PinningExits(outcome) == outcome # "ok"

\* A variant that removes the work directory whoever allocated it.
AlwaysRemoved(cleanup, dir) == "removed"

\* The finally block of main: shutil.rmtree(work_dir) when cleanup_work.
WorkDirAfterFinally(cleanup, dir) == IF cleanup THEN "removed" ELSE dir

\* output_dir.glob("*.iso"): the first path yielded, in directory order.
GlobFirstIso(dir) == IF dir = {} THEN {"None"} ELSE dir

\* The exit status of the interpreter: sys.exit(1) and an uncaught exception
\* both give 1, a normal return of main gives 0.
ExitStatus(st) == IF st = "Done" THEN 0 ELSE 1

\* open(auth_keys_file, "w"): creates the file with 0666 & ~umask, or
\* truncates an existing file and keeps its mode.
OpenForWrite(f, um) ==
    IF f.exists THEN [f EXCEPT !.content = <<>>]
    ELSE [exists |-> TRUE, content |-> <<>>, mode |-> FileCreateMode \ um]

\* auth_keys_dir.mkdir(parents=True, exist_ok=True)
Mkdir(d, um) ==
    IF d.exists THEN d ELSE [exists |-> TRUE, mode |-> DirCreateMode \ um]

\* ------------------------------------------------------------------ inputs
NoLinks == [s \in AllServices |-> "absent"]

DefaultText == <<"x", "LF", "[core]", "LF", "x", "LF">>

DefaultBoot ==
    (E1 :> File("releng")) @@ (E2 :> File("releng")) @@ (LTS :> Absent)
    @@ (SYS :> File("releng")) @@ (GRUB :> File("releng"))

DefaultWants ==
    (MultiUser :> [exists |-> TRUE,
                   links |-> [NoLinks EXCEPT !["systemd-networkd.service"] = "unit",
                                             !["sshd.service"] = "unit"]])
    @@ (NetworkOnline :> [exists |-> TRUE,
                          links |-> [NoLinks EXCEPT
                                     !["systemd-networkd-wait-online.service"] = "unit"]])
    @@ (Sockets :> [exists |-> FALSE, links |-> NoLinks])

DefaultIsoBoot == {LTS, SYS, GRUB}

DefaultKeys == [exists |-> TRUE, lines |-> << <<"k">> >>]

Umask022 == {"gw", "ow"}

InitWith(Relengs, IsoBoots, KeySources, DisableLists, EnableLists, Masks, Outputs) ==
    /\ releng \in Relengs
    /\ iso_boot \in IsoBoots
    /\ keys_src \in KeySources
    /\ services_to_disable \in DisableLists
    /\ services \in EnableLists
    /\ umask \in Masks
    /\ output_dir \in Outputs
    /\ pc = "parse_args"
    /\ status = "Running"
    /\ exit_code = -1
    /\ steps = <<>>
    /\ failed_at = ""
    /\ args = [work_dir |-> FALSE, skip_pinning |-> FALSE]
    /\ cleanup_work = FALSE
    /\ work_dir = "unallocated"
    /\ work_items = {}
    /\ pinned_repo_dir = "None"
    /\ pacman_conf = <<>>
    /\ boot = [p \in BootPaths |-> Absent]
    /\ wants = [d \in WantsDirs |-> [exists |-> FALSE, links |-> NoLinks]]
    /\ preset = "absent"
    /\ ssh_dir = AbsentDir
    /\ auth_keys = AbsentFile
    /\ keys = <<>>
    /\ tool_made = {}
    /\ iso_path = "None"
    /\ pinning_outcome = "none"
    /\ releng_found = "unchecked"
    /\ tool_rc = "none"
    /\ reported = "none"

\* ------------------------------------------------------------------ actions
inputs == <<releng, iso_boot, keys_src, services_to_disable, services, umask>>
profile == <<pacman_conf, boot, wants, preset, ssh_dir, auth_keys>>
result == <<status, exit_code, failed_at, reported>>
workdir == <<cleanup_work, work_dir, work_items>>
build == <<output_dir, tool_made, iso_path, tool_rc>>
observed == <<pinning_outcome, releng_found>>

\* A stage raises (sys.exit or an exception): control goes to main's finally.
Raise(stage) ==
    /\ status' = "Failed"
    /\ failed_at' = stage
    /\ pc' = "finally"

\* Lines 352-357
ParseArgs ==
    /\ pc = "parse_args"
    /\ \E w, s \in BOOLEAN : args' = [work_dir |-> w, skip_pinning |-> s]
    /\ pc' = "check_root"
    /\ UNCHANGED <<observed, inputs, profile, result, workdir, build, steps,
                   pinned_repo_dir, keys>>

\* Lines 359-362: sys.exit(1) outside the try block when not root.
CheckRoot ==
    /\ pc = "check_root"
    /\ \E root \in BOOLEAN :
         IF root
         THEN pc' = "create_work_dir" /\ UNCHANGED result
         ELSE /\ pc' = "exited"
              /\ status' = "Failed"
              /\ failed_at' = "check_root"
              /\ exit_code' = 1
              /\ UNCHANGED reported
    /\ UNCHANGED <<observed, inputs, profile, workdir, build, steps, args,
                   pinned_repo_dir, keys>>

\* Lines 372-379: a caller-supplied directory may already hold a profile from
\* an earlier run; mkdtemp gives a fresh empty one.
CreateWorkDir ==
    /\ pc = "create_work_dir"
    /\ work_dir' = "present"
    /\ cleanup_work' = ~args.work_dir
    /\ \E old \in SUBSET {"profile"} :
         work_items' = IF args.work_dir THEN old ELSE {}
    /\ pc' = "setup_pinned_kernel_repo"
    /\ UNCHANGED <<observed, inputs, profile, result, build, steps, args,
                   pinned_repo_dir, keys>>

\* Lines 385-387 and 60-114
SetupPinnedKernelRepo ==
    /\ pc = "setup_pinned_kernel_repo"
    /\ IF args.skip_pinning
       THEN /\ pc' = StageAfter("setup_pinned_kernel_repo")
            /\ UNCHANGED <<steps, status, failed_at, pinned_repo_dir, work_items,
                           pinning_outcome>>
       ELSE \E outcome \in {"ok", "ImportError", "Exception"} :
              /\ pinning_outcome' = outcome
              /\ steps' = Append(steps, "setup_pinned_kernel_repo")
              /\ IF PinningExits(outcome)
                 THEN /\ Raise("setup_pinned_kernel_repo")
                      /\ pinned_repo_dir' = pinned_repo_dir
                      \* the repository directory is made before the download
                      /\ \E made \in SUBSET {"pinned-repo"} :
                           work_items' = IF outcome = "ImportError"
                                         THEN work_items ELSE work_items \cup made
                 ELSE /\ pinned_repo_dir' = PinnedRepoPath
                      /\ work_items' = work_items \cup {"pinned-repo"}
                      /\ pc' = StageAfter("setup_pinned_kernel_repo")
                      /\ UNCHANGED <<status, failed_at>>
    /\ UNCHANGED <<inputs, profile, exit_code, reported, cleanup_work, work_dir,
                   build, args, keys, releng_found>>

\* Lines 117-170.  `releng` is the tree that copytree and the airootfs overlay
\* (lines 130-147) leave in the profile; the boot-entry removal and the
\* boot-config copy are the last two loops of the same function.  Three ways
\* to fail: the template is absent (sys.exit), the profile directory already
\* exists (copytree raises), the package list is missing (shutil.copy raises
\* after copytree).
SetupArchisoProfile ==
    /\ pc = "setup_archiso_profile"
    /\ \E releng_exists, packages_exist \in BOOLEAN, order \in RglobOrders(iso_boot) :
         /\ releng_found' = IF releng_exists THEN "present" ELSE "absent"
         /\ IF ~releng_exists \/ "profile" \in work_items
            THEN \* sys.exit(1), or copytree raising FileExistsError
              /\ Raise("setup_archiso_profile")
              /\ UNCHANGED <<profile, work_items, steps>>
            ELSE
              /\ work_items' = work_items \cup {"profile"}
              /\ pacman_conf' = releng.pacman_conf
              /\ wants' = releng.wants
              /\ preset' = releng.preset
              /\ ssh_dir' = releng.ssh_dir
              /\ auth_keys' = releng.auth_keys
              /\ IF ~packages_exist
                 THEN \* shutil.copy of the package list raises
                      /\ Raise("setup_archiso_profile")
                      /\ steps' = Append(steps, "copy_template")
                      /\ boot' = releng.boot
                 ELSE /\ boot' = ReconcileBootEntries(releng.boot, order)
                      /\ steps' = steps \o <<"copy_template", "remove_boot_entries",
                                             "copy_boot_configs">>
                      /\ pc' = StageAfter("setup_archiso_profile")
                      /\ UNCHANGED <<status, failed_at>>
    /\ UNCHANGED <<inputs, exit_code, reported, cleanup_work, work_dir, build,
                   args, pinned_repo_dir, keys, pinning_outcome>>

\* Lines 208-242
ConfigurePacman ==
    /\ pc = "configure_pacman"
    /\ pacman_conf' = configure_pacman(pacman_conf, pinned_repo_dir)
    /\ steps' = Append(steps, "configure_pacman")
    /\ pc' = StageAfter("configure_pacman")
    /\ UNCHANGED <<observed, inputs, boot, wants, preset, ssh_dir, auth_keys, result,
                   workdir, build, args, pinned_repo_dir, keys>>

\* Lines 173-192: read and filter the source; return early with a warning
\* when it is missing or yields no key.
InjectSshKeys ==
    /\ pc = "inject_ssh_keys"
    /\ steps' = Append(steps, "inject_ssh_keys")
    /\ IF ~keys_src.exists
       THEN keys' = keys /\ pc' = StageAfter("inject_ssh_keys")
       ELSE /\ keys' = ReadKeys(keys_src.lines)
            /\ pc' = IF keys' = <<>> THEN StageAfter("inject_ssh_keys")
                     ELSE "ssh_mkdir"
    /\ UNCHANGED <<observed, inputs, profile, result, workdir, build, args, pinned_repo_dir>>

\* Line 196
SshMkdir ==
    /\ pc = "ssh_mkdir"
    /\ ssh_dir' = Mkdir(ssh_dir, umask)
    /\ pc' = "ssh_open"
    /\ UNCHANGED <<observed, inputs, pacman_conf, boot, wants, preset, auth_keys, result,
                   workdir, build, steps, args, pinned_repo_dir, keys>>

\* Line 199
SshOpen ==
    /\ pc = "ssh_open"
    /\ auth_keys' = OpenForWrite(auth_keys, umask)
    /\ pc' = "ssh_write"
    /\ UNCHANGED <<observed, inputs, pacman_conf, boot, wants, preset, ssh_dir, result,
                   workdir, build, steps, args, pinned_repo_dir, keys>>

\* Line 200, flushed when the with block closes the file
SshWrite ==
    /\ pc = "ssh_write"
    /\ auth_keys' = [auth_keys EXCEPT !.content = KeysFileText(keys)]
    /\ pc' = "ssh_chmod_file"
    /\ UNCHANGED <<observed, inputs, pacman_conf, boot, wants, preset, ssh_dir, result,
                   workdir, build, steps, args, pinned_repo_dir, keys>>

\* Line 202
SshChmodFile ==
    /\ pc = "ssh_chmod_file"
    /\ auth_keys' = [auth_keys EXCEPT !.mode = Mode600]
    /\ pc' = "ssh_chmod_dir"
    /\ UNCHANGED <<observed, inputs, pacman_conf, boot, wants, preset, ssh_dir, result,
                   workdir, build, steps, args, pinned_repo_dir, keys>>

\* Line 203
SshChmodDir ==
    /\ pc = "ssh_chmod_dir"
    /\ ssh_dir' = [ssh_dir EXCEPT !.mode = Mode700]
    /\ pc' = StageAfter("inject_ssh_keys")
    /\ UNCHANGED <<observed, inputs, pacman_conf, boot, wants, preset, auth_keys, result,
                   workdir, build, steps, args, pinned_repo_dir, keys>>

\* Lines 245-286
DisableConflictingServices ==
    /\ pc = "disable_conflicting_services"
    /\ wants' = disable_conflicting_services(wants, services_to_disable)
    /\ steps' = Append(steps, "disable_conflicting_services")
    /\ pc' = StageAfter("disable_conflicting_services")
    /\ UNCHANGED <<observed, inputs, pacman_conf, boot, preset, ssh_dir, auth_keys, result,
                   workdir, build, args, pinned_repo_dir, keys>>

\* Lines 289-303
CleanupRelengFiles ==
    /\ pc = "cleanup_releng_files"
    /\ preset' = cleanup_releng_files(preset)
    /\ steps' = Append(steps, "cleanup_releng_files")
    /\ pc' = StageAfter("cleanup_releng_files")
    /\ UNCHANGED <<observed, inputs, pacman_conf, boot, wants, ssh_dir, auth_keys, result,
                   workdir, build, args, pinned_repo_dir, keys>>

\* Lines 306-324
EnableServices ==
    /\ pc = "enable_services"
    /\ wants' = enable_services(wants, services)
    /\ steps' = Append(steps, "enable_services")
    /\ pc' = StageAfter("enable_services")
    /\ UNCHANGED <<observed, inputs, pacman_conf, boot, preset, ssh_dir, auth_keys, result,
                   workdir, build, args, pinned_repo_dir, keys>>

\* Lines 327-348: run_cmd raises FileNotFoundError when mkarchiso is missing
\* and CalledProcessError when it returns non-zero (check=True); after a zero
\* exit the first *.iso of the output directory is returned, or None.
BuildIso ==
    /\ pc = "build_iso"
    /\ steps' = Append(steps, "build_iso")
    /\ \E tool \in {"missing", "nonzero", "zero"}, made \in SUBSET {"new.iso"} :
         /\ tool_rc' = tool
         /\ tool_made' = IF tool = "missing" THEN {} ELSE made
         /\ output_dir' = output_dir \cup tool_made'
         /\ work_items' = IF tool = "missing" THEN work_items
                          ELSE work_items \cup {"work"}
         /\ IF tool # "zero"
            THEN Raise("build_iso") /\ iso_path' = iso_path
            ELSE /\ iso_path' \in GlobFirstIso(output_dir')
                 /\ pc' = StageAfter("build_iso")
                 /\ UNCHANGED <<status, failed_at>>
    /\ UNCHANGED <<observed, inputs, profile, exit_code, reported, cleanup_work, work_dir,
                   args, pinned_repo_dir, keys>>

\* Lines 410-416
Report ==
    /\ pc = "report"
    /\ IF iso_path # "None"
       THEN /\ reported' = "success"
            /\ status' = "Done"
            /\ pc' = "finally"
            /\ UNCHANGED failed_at
       ELSE /\ reported' = "error"
            /\ Raise("report")
    /\ UNCHANGED <<observed, inputs, profile, exit_code, workdir, build, steps, args,
                   pinned_repo_dir, keys>>

\* Lines 418-421, then the interpreter exits
Finally ==
    /\ pc = "finally"
    /\ work_dir' = WorkDirAfterFinally(cleanup_work, work_dir)
    /\ work_items' = IF work_dir' = "removed" THEN {} ELSE work_items
    /\ exit_code' = ExitStatus(status)
    /\ pc' = "exited"
    /\ UNCHANGED <<observed, inputs, profile, status, failed_at, reported, cleanup_work,
                   build, steps, args, pinned_repo_dir, keys>>

Next ==
    \/ ParseArgs
    \/ CheckRoot
    \/ CreateWorkDir
    \/ SetupPinnedKernelRepo
    \/ SetupArchisoProfile
    \/ ConfigurePacman
    \/ InjectSshKeys
    \/ SshMkdir
    \/ SshOpen
    \/ SshWrite
    \/ SshChmodFile
    \/ SshChmodDir
    \/ DisableConflictingServices
    \/ CleanupRelengFiles
    \/ EnableServices
    \/ BuildIso
    \/ Report
    \/ Finally

\* --------------------------------------------------------- specifications
NoAnchorText == <<"x", "LF", "x", "LF">>

\* The orchestrator on a few representative profiles.
Init ==
    InitWith([pacman_conf : {DefaultText, NoAnchorText}, boot : {DefaultBoot},
              wants : {DefaultWants}, preset : {"file", "absent"},
              ssh_dir : {AbsentDir}, auth_keys : {AbsentFile}],
             {DefaultIsoBoot},
             {DefaultKeys, [exists |-> FALSE, lines |-> <<>>]},
             {SERVICES_TO_DISABLE}, {SERVICES}, {Umask022},
             {{}, {"old.iso"}})

Spec == Init /\ [][Next]_vars

\* Every configuration text up to MaxTextLen tokens; keys and services fixed.
Texts == SeqsUpTo({"[core]", "x", "LF", "CR"}, MaxTextLen)

InitPacman ==
    InitWith([pacman_conf : Texts, boot : {DefaultBoot}, wants : {DefaultWants},
              preset : {"file"}, ssh_dir : {AbsentDir}, auth_keys : {AbsentFile}],
             {DefaultIsoBoot}, {DefaultKeys}, {SERVICES_TO_DISABLE}, {SERVICES},
             {Umask022}, {{}})

SpecPacman == InitPacman /\ [][Next]_vars

\* Every credentials source up to MaxLines lines of up to MaxLineLen
\* characters, under both umasks, with and without a template .ssh directory.
KeyLines == SeqsUpTo({" ", "#", "k"}, MaxLineLen)

KeyFiles ==
    {[exists |-> FALSE, lines |-> <<>>]}
    \cup {[exists |-> TRUE, lines |-> ls] : ls \in SeqsUpTo(KeyLines, MaxLines)}

Mode755 == {"ur", "uw", "ux", "gr", "gx", "or", "ox"}

InitKeys ==
    InitWith([pacman_conf : {DefaultText}, boot : {DefaultBoot},
              wants : {DefaultWants}, preset : {"file"},
              ssh_dir : {AbsentDir, [exists |-> TRUE, mode |-> Mode755]},
              auth_keys : {AbsentFile}],
             {DefaultIsoBoot}, KeyFiles, {SERVICES_TO_DISABLE}, {SERVICES},
             Umasks, {{}})

SpecKeys == InitKeys /\ [][Next]_vars

\* Every state of two activation links in the multi-user directory, and every
\* disable list and enable list over the two services.
Populated == {"systemd-networkd.service", "sshd.service"}
LinkKinds == {"absent", "unit", "symlink", "file"}

LinkStates ==
    {[s \in AllServices |-> IF s \in Populated THEN f[s] ELSE "absent"] :
     f \in [Populated -> LinkKinds]}

WantsStates ==
    {(MultiUser :> mu) @@ (NetworkOnline :> no) @@ (Sockets :> so) :
     mu \in {[exists |-> FALSE, links |-> NoLinks]}
            \cup {[exists |-> TRUE, links |-> l] : l \in LinkStates},
     no \in {[exists |-> FALSE, links |-> NoLinks],
             [exists |-> TRUE,
              links |-> [NoLinks EXCEPT !["systemd-networkd.service"] = "unit"]]},
     so \in {[exists |-> FALSE, links |-> NoLinks],
             [exists |-> TRUE,
              links |-> [NoLinks EXCEPT !["sshd.service"] = "symlink"]]}}

ListsOver(S) == UNION {Perms(T) : T \in SUBSET S}

InitServices ==
    InitWith([pacman_conf : {DefaultText}, boot : {DefaultBoot},
              wants : WantsStates, preset : {"file"}, ssh_dir : {AbsentDir},
              auth_keys : {AbsentFile}],
             {DefaultIsoBoot}, {DefaultKeys}, ListsOver(Populated),
             ListsOver(Populated), {Umask022}, {{}})

SpecServices == InitServices /\ [][Next]_vars

\* Every state of the stock loader entries (absent, a file, or a symbolic
\* link to the LTS entry), every overlay, every preset node, and the
\* activation links of the two services under the lists of the source.
BootStates ==
    {(E1 :> a) @@ (E2 :> b) @@ (LTS :> c) @@ (SYS :> File("releng"))
     @@ (GRUB :> File("releng")) :
     a \in {Absent, File("releng"), Link(LTS)},
     b \in {Absent, File("releng"), Link(LTS)},
     c \in {Absent, File("releng")}}

InitBoot ==
    InitWith([pacman_conf : {DefaultText}, boot : BootStates,
              wants : {DefaultWants}, preset : {"absent", "file", "symlink", "dangling"},
              ssh_dir : {AbsentDir}, auth_keys : {AbsentFile}],
             SUBSET BootPaths, {DefaultKeys}, {SERVICES_TO_DISABLE}, {SERVICES},
             {Umask022}, {{}})

SpecBoot == InitBoot /\ [][Next]_vars

\* ------------------------------------------------------------------ claims
Ran(stage) == stage \in Range(steps)

Last(s) == s[Len(s)]

IsPrefix(a, b) == Len(a) <= Len(b) /\ SubSeq(b, 1, Len(a)) = a

SshSteps == {"ssh_mkdir", "ssh_open", "ssh_write", "ssh_chmod_file", "ssh_chmod_dir"}

InjectFinished == Ran("inject_ssh_keys") /\ pc \notin SshSteps

ProfileUntouched ==
    /\ pacman_conf = <<>>
    /\ boot = [p \in BootPaths |-> Absent]
    /\ wants = [d \in WantsDirs |-> [exists |-> FALSE, links |-> NoLinks]]
    /\ preset = "absent"
    /\ ssh_dir = AbsentDir
    /\ auth_keys = AbsentFile

RECURSIVE FirstIndex(_, _)
FirstIndex(s, x) == IF Head(s) = x THEN 1 ELSE 1 + FirstIndex(Tail(s), x)

\* The configuration text as configure_pacman reads it from the template.
OriginalText == ReadText(releng.pacman_conf)

\* C1: for every configuration text that holds the anchor "[core]", after
\* configure_pacman the file is the original text before the first "[core]",
\* then one [pinned] section (exactly when a staged repository was given),
\* then one [archzfs] section, then the original text from the first "[core]"
\* on, unchanged: the sections are inserted once, before the first anchor.
C1_SectionsOnceBeforeFirstCore ==
    (Ran("configure_pacman") /\ Anchor \in Range(OriginalText)) =>
        LET i == FirstIndex(OriginalText, Anchor)
        IN pacman_conf =
             SubSeq(OriginalText, 1, i - 1)
             \o (IF pinned_repo_dir # "None" THEN pinned_repo(PinnedRepoPath) ELSE <<>>)
             \o archzfs_repo
             \o SubSeq(OriginalText, i, Len(OriginalText))

\* A line qualifies when, trimmed, it is non-empty and does not begin with "#".
Qualifies(line) == Strip(line) # <<>> /\ Head(Strip(line)) # "#"

RECURSIVE QualifyingText(_)
QualifyingText(lines) ==
    IF lines = <<>> THEN <<>>
    ELSE (IF Qualifies(Head(lines)) THEN Strip(Head(lines)) \o <<"LF">> ELSE <<>>)
         \o QualifyingText(Tail(lines))

\* C2: when the credentials source has at least one qualifying line,
\* inject_ssh_keys writes exactly the qualifying lines, trimmed, in their
\* original order, each newline-terminated, and no non-qualifying line
\* (a comment line preceded by whitespace included).
C2_ExactlyQualifyingLines ==
    (InjectFinished /\ keys_src.exists
       /\ \E i \in 1..Len(keys_src.lines) : Qualifies(keys_src.lines[i])) =>
        /\ auth_keys.exists
        /\ auth_keys.content = QualifyingText(keys_src.lines)

Resolving(skip) == IF skip THEN <<>> ELSE <<"setup_pinned_kernel_repo">>

\* The stage order the specification states.
ClaimedOrder(skip) ==
    Resolving(skip) \o
    <<"copy_template", "configure_pacman", "inject_ssh_keys", "remove_boot_entries",
      "copy_boot_configs", "cleanup_releng_files", "disable_conflicting_services",
      "enable_services", "build_iso">>

\* The order of the operations in main and setup_archiso_profile.
CodeOrder(skip) ==
    Resolving(skip) \o
    <<"copy_template", "remove_boot_entries", "copy_boot_configs", "configure_pacman",
      "inject_ssh_keys", "disable_conflicting_services", "cleanup_releng_files",
      "enable_services", "build_iso">>

\* C3 as stated: the operations of every run start in the order resolving,
\* materializing, configuring repositories, injecting trust, reconciling
\* boot (entry removal, boot-tree copy, preset removal), disable pass, enable
\* pass, building; a run that ends in Done has run them all.
C3_ClaimedStageOrder ==
    /\ IsPrefix(steps, ClaimedOrder(args.skip_pinning))
    /\ status = "Done" => steps = ClaimedOrder(args.skip_pinning)

\* C3 as amended: the operations of every run start in the order resolving
\* (unless skipped), materializing, stock boot entry removal, boot-tree copy,
\* configuring repositories, injecting trust, disable pass, preset removal,
\* enable pass, building; a run that ends in Done has run them all.
C3_CodeStageOrder ==
    /\ IsPrefix(steps, CodeOrder(args.skip_pinning))
    /\ status = "Done" => steps = CodeOrder(args.skip_pinning)

C3_PinnedRunDone ==
    status = "Done" /\ ~args.skip_pinning /\ Ran("setup_pinned_kernel_repo")
    /\ Last(steps) = "build_iso"

\* C4: when the disable pass and then the enable pass have run, every service
\* named in both lists has an activation link in the multi-user directory.
C4_DisableBeforeEnable ==
    (Ran("disable_conflicting_services") /\ Ran("enable_services")) =>
        \A s \in Range(services_to_disable) \cap Range(services) :
            wants[MultiUser].exists /\ LinkPresent(wants[MultiUser].links, s)

C4_ServiceInBothListsHadLink ==
    /\ Ran("disable_conflicting_services") /\ Ran("enable_services")
    /\ \E s \in Range(services_to_disable) \cap Range(services) :
         releng.wants[MultiUser].links[s] = "file"

\* C5: the work directory is removed only when it is the ephemeral default
\* and only once the run has reached Done or Failed; when the process has
\* exited after allocating it, an ephemeral directory is gone and a
\* caller-supplied one is still there with what the run put in it.
C5_WorkDirLifecycle ==
    /\ work_dir = "removed" =>
         cleanup_work /\ status \in {"Done", "Failed"} /\ pc = "exited"
    /\ (pc = "exited" /\ work_dir # "unallocated") =>
         IF cleanup_work
         THEN work_dir = "removed"
         ELSE /\ work_dir = "present"
              /\ Ran("copy_template") => "profile" \in work_items
              /\ pinning_outcome = "ok" => "pinned-repo" \in work_items
              /\ tool_rc \in {"zero", "nonzero"} => "work" \in work_items

C5_EphemeralRemovedAfterBuildFailure ==
    pc = "exited" /\ work_dir = "removed" /\ failed_at = "build_iso"
    /\ tool_rc = "nonzero"

\* The service activation editor leaves a state it does not change again.
ServiceEditorIdempotent ==
    Ran("enable_services") =>
        enable_services(disable_conflicting_services(wants, services_to_disable),
                        services) = wants

\* The preset removal leaves a state it does not change again.
PresetCleanupIdempotent ==
    Ran("cleanup_releng_files") => cleanup_releng_files(preset) = preset

\* C6: running the boot entry reconciler (stock entry removal, boot-tree
\* copy, preset removal) on the state it has produced changes nothing, and so
\* does running the service activation editor (disable pass, enable pass) on
\* the state it has produced: twice is the same as once.
C6_ReconcilerAndEditorIdempotent ==
    /\ Ran("copy_boot_configs") =>
         \A order \in RglobOrders(iso_boot) : ReconcileBootEntries(boot, order) = boot
    /\ PresetCleanupIdempotent
    /\ ServiceEditorIdempotent

\* C7: when mkarchiso returns non-zero, or returns zero without writing an
\* image in this run, success is not reported and the process ends Failed
\* with a non-zero status; success is reported only when mkarchiso wrote an
\* image in this run, whatever the output directory held before.
C7_SuccessOnlyWithFreshImage ==
    /\ (tool_rc = "nonzero" \/ (tool_rc = "zero" /\ tool_made = {})) =>
         /\ reported # "success"
         /\ pc = "exited" => status = "Failed" /\ exit_code # 0
    /\ reported = "success" => tool_made # {}

NoStageTwice == \A i, j \in 1..Len(steps) : steps[i] = steps[j] => i = j

\* C8: when the resolver fails (zfspin missing, or a zfspin call raising)
\* with pinning not skipped, or the base template is absent, the run is
\* Failed at that stage, nothing later has run (the profile is untouched,
\* mkarchiso is not invoked), no stage runs twice and the exit status is
\* non-zero; with --skip-pinning the resolver is never invoked.
C8_FatalFailureStopsPipeline ==
    /\ pinning_outcome \in {"ImportError", "Exception"} =>
         /\ ~args.skip_pinning
         /\ status = "Failed" /\ failed_at = "setup_pinned_kernel_repo"
         /\ steps = <<"setup_pinned_kernel_repo">>
         /\ ProfileUntouched /\ tool_rc = "none"
         /\ pc \in {"finally", "exited"}
         /\ pc = "exited" => exit_code = 1
    /\ releng_found = "absent" =>
         /\ status = "Failed" /\ failed_at = "setup_archiso_profile"
         /\ steps = Resolving(args.skip_pinning)
         /\ ProfileUntouched /\ tool_rc = "none"
         /\ pc \in {"finally", "exited"}
         /\ pc = "exited" => exit_code = 1
    /\ args.skip_pinning =>
         /\ pinning_outcome = "none" /\ ~Ran("setup_pinned_kernel_repo")
         /\ failed_at # "setup_pinned_kernel_repo" /\ pinned_repo_dir = "None"
    /\ NoStageTwice

C8_ResolverRaisedAndExited ==
    pc = "exited" /\ pinning_outcome = "Exception" /\ exit_code = 1
    /\ work_dir = "removed"

\* C9 as stated: when the configuration does not hold the anchor, the file
\* after configure_pacman is identical to the file before it, neither new
\* section appears, and the pipeline continues with the next stage.
C9_NoAnchorFileIdentical ==
    (Ran("configure_pacman") /\ Anchor \notin Range(releng.pacman_conf)) =>
        /\ pacman_conf = releng.pacman_conf
        /\ "[archzfs]" \notin Range(pacman_conf) /\ "[pinned]" \notin Range(pacman_conf)
        /\ failed_at # "configure_pacman"
        /\ Last(steps) = "configure_pacman" => pc = "inject_ssh_keys" /\ status = "Running"

\* C9 as amended: when the configuration does not hold the anchor, the file
\* after configure_pacman is the file before it with every CR LF and every
\* lone CR replaced by LF (identical when it holds no CR), neither new
\* section appears, and the pipeline continues with the next stage.
C9_NoAnchorFileNormalised ==
    (Ran("configure_pacman") /\ Anchor \notin Range(releng.pacman_conf)) =>
        /\ pacman_conf = ReadText(releng.pacman_conf)
        /\ "CR" \notin Range(releng.pacman_conf) => pacman_conf = releng.pacman_conf
        /\ "[archzfs]" \notin Range(pacman_conf) /\ "[pinned]" \notin Range(pacman_conf)
        /\ failed_at # "configure_pacman"
        /\ Last(steps) = "configure_pacman" => pc = "inject_ssh_keys" /\ status = "Running"

C9_NoAnchorConfigured ==
    /\ Ran("configure_pacman") /\ Last(steps) = "configure_pacman"
    /\ pinned_repo_dir # "None"
    /\ Anchor \notin Range(releng.pacman_conf)
    /\ "CR" \in Range(releng.pacman_conf) /\ "x" \in Range(releng.pacman_conf)

\* C10: the permissions are set after the content is written, the step ends
\* with the directory 0700 and the file 0600, and in no state of the step
\* does the credentials file hold content while anyone but the owner may
\* read it.
C10_KeysNeverExposed ==
    /\ (pc \in SshSteps /\ auth_keys.exists /\ auth_keys.content # <<>>) =>
         auth_keys.mode \cap {"gr", "or"} = {}
    /\ (InjectFinished /\ keys # <<>>) =>
         ssh_dir.mode = Mode700 /\ auth_keys.mode = Mode600
====
